---- MODULE Spec2Model ----
(***************************************************************************)
(* Model of bufferControl.py: the recency list kept by                     *)
(* BufferControlEventListener, sort_views_by_recent, BufferSelector and    *)
(* the switch_buffer / kill_buffer commands, running against one editor    *)
(* window with groups of views.  The editor (window, groups, views, quick  *)
(* panel) is the environment: its calls are modelled by the operators      *)
(* focus_view, focus_group and close_file, which deliver the on_activated  *)
(* and on_close events to the listener before they return.                 *)
(***************************************************************************)
EXTENDS Integers, Sequences, FiniteSets, TLC

\* ------------------------------------------------------------------ bounds
MaxViews == 3          \* views that can be open at a time
NumGroups == 2         \* groups of the window
MaxNameLen == 2        \* characters of a file or folder name
MaxDepth == 2          \* names of a file name or of a folder
MaxFolders == 2        \* folders open in the window

None == 0              \* Python None (no view)
Views == 1..MaxViews
Groups == 0..(NumGroups - 1)

VARIABLES
  groups,          \* window.views_in_group: group -> views in tab order
  active,          \* group -> the active view of the group, or None
  activeGroup,     \* window.active_group()
  activeViewList,  \* the module-level recency list
  selector,        \* the BufferSelector whose quick panel is open, or NoSelector
  hist,            \* history: which views are activated-and-not-closed, and in what order
  lastOp,          \* history: the last operation, its inputs and the window before it
  row              \* a view and the window's folders, and the path __get_path shows for them

vars == <<groups, active, activeGroup, activeViewList, selector, hist, lastOp, row>>

\* ------------------------------------------------------- Python list helpers
In(list, v) == \E i \in 1..Len(list) : list[i] = v

\* list.index(v), 0-based: the position of the first occurrence
Index(list, v) == (CHOOSE i \in 1..Len(list) : list[i] = v /\ \A j \in 1..(i - 1) : list[j] # v) - 1

\* list.remove(v): drops the first occurrence
Remove(list, v) ==
  LET k == Index(list, v) + 1
  IN  [i \in 1..(Len(list) - 1) |-> IF i < k THEN list[i] ELSE list[i + 1]]

Reverse(list) == [i \in 1..Len(list) |-> list[Len(list) + 1 - i]]

Elems(list) == {list[i] : i \in 1..Len(list)}

RECURSIVE Concat(_, _)
Concat(f, g) == IF g > NumGroups - 1 THEN <<>> ELSE f[g] \o Concat(f, g + 1)

\* list[index] with Python's negative indices
PyItem(list, index) == IF index >= 0 THEN list[index + 1] ELSE list[Len(list) + index + 1]

Abs(n) == IF n < 0 THEN -n ELSE n

\* --------------------------------------------------- BufferControlEventListener
on_activated_nodedup(list, view) == Append(list, view)

on_activated(list, view) ==
  Append(IF In(list, view) THEN Remove(list, view) ELSE list, view)

on_close_keep(list, view) == list

on_close(list, view) == IF In(list, view) THEN Remove(list, view) ELSE list

\* --------------------------------------------------------- sort_views_by_recent
sort_helper(list, view) == IF In(list, view) THEN Index(list, view) ELSE -1

\* a stable ascending sort by sort_helper: insertion after the last element
\* whose key is not larger
RECURSIVE InsertByKey(_, _, _)
InsertByKey(list, sortedViews, v) ==
  IF sortedViews = <<>> THEN <<v>>
  ELSE IF sort_helper(list, sortedViews[Len(sortedViews)]) <= sort_helper(list, v)
       THEN Append(sortedViews, v)
       ELSE Append(InsertByKey(list, SubSeq(sortedViews, 1, Len(sortedViews) - 1), v),
                   sortedViews[Len(sortedViews)])

RECURSIVE StableSort(_, _)
StableSort(list, views) ==
  IF views = <<>> THEN <<>>
  ELSE InsertByKey(list, StableSort(list, SubSeq(views, 1, Len(views) - 1)), views[Len(views)])

\* sorted(views, key=sort_helper, reverse=True): the list is reversed, sorted
\* stably in ascending order and reversed again, which keeps equal keys in
\* input order
sort_views_unstable(list, views) == Reverse(StableSort(list, views))

sort_views_by_recent(list, views) == Reverse(StableSort(list, Reverse(views)))

\* ------------------------------------------------------------------ the window
Cur == [groups |-> groups, active |-> active, activeGroup |-> activeGroup,
        list |-> activeViewList, hist |-> hist]

active_view(s) == s.active[s.activeGroup]

views_in_group(s, g) == s.groups[g]

window_views(s) == Concat(s.groups, 0)

OpenViews(s) == UNION {Elems(s.groups[g]) : g \in Groups}

\* the first group of range(num_groups) that holds the view
GroupOf(s, v) == CHOOSE g \in Groups : In(s.groups[g], v) /\ \A h \in Groups : h < g => ~In(s.groups[h], v)

\* history of the events delivered: acts is the set of views activated and not
\* closed since, before the pairs <<u, v>> with u last activated before v
HistActivated(h, v) ==
  [acts   |-> h.acts \cup {v},
   before |-> {p \in h.before : p[1] # v /\ p[2] # v} \cup {<<u, v>> : u \in h.acts \ {v}}]

HistClosed(h, v) ==
  [acts   |-> h.acts \ {v},
   before |-> {p \in h.before : p[1] # v /\ p[2] # v}]

\* the editor delivers on_activated(view) / on_close(view) to the listener
FireActivated(s, v) == [s EXCEPT !.list = on_activated(s.list, v), !.hist = HistActivated(s.hist, v)]

FireClose(s, v) == [s EXCEPT !.list = on_close(s.list, v), !.hist = HistClosed(s.hist, v)]

\* window.focus_view(view): the view becomes the active view of its group and
\* its group the active group; on_activated fires when the focus moved
focus_view(s, v) ==
  IF active_view(s) = v THEN s
  ELSE LET g == GroupOf(s, v)
       IN  FireActivated([s EXCEPT !.active[g] = v, !.activeGroup = g], v)

\* window.focus_group(group)
focus_group(s, g) ==
  IF s.activeGroup = g THEN s
  ELSE LET t == [s EXCEPT !.activeGroup = g]
       IN  IF s.active[g] = None THEN t ELSE FireActivated(t, s.active[g])

\* the views the editor may make active in the group of v once v is closed
DefaultChoices(s, v) ==
  LET g == GroupOf(s, v)
  IN  IF s.active[g] # v THEN {s.active[g]}
      ELSE IF Elems(s.groups[g]) = {v} THEN {None}
      ELSE Elems(s.groups[g]) \ {v}

\* the editor closes view v: on_close fires; when v was the active view of its
\* group the editor makes d active there, and on_activated fires for d when the
\* group has the focus
close_view(s, v, d) ==
  LET g == GroupOf(s, v)
      t == FireClose([s EXCEPT !.groups[g] = Remove(s.groups[g], v)], v)
  IN  IF s.active[g] # v THEN t
      ELSE LET u == [t EXCEPT !.active[g] = d]
           IN  IF d # None /\ s.activeGroup = g THEN FireActivated(u, d) ELSE u

\* window.run_command("close_file"): closes the active view of the window
close_file(s, d) == IF active_view(s) = None THEN s ELSE close_view(s, active_view(s), d)

\* ---------------------------------------------------------------- BufferSelector
\* the "move the current view to the end" step of __init__, lines 146-150
MoveCurrentDrop(s, views) ==
  IF Len(views) > 0 /\ views[1] = active_view(s) THEN Remove(views, views[1]) ELSE views

MoveCurrentAlways(s, views) ==
  IF In(views, active_view(s)) THEN Append(Remove(views, active_view(s)), active_view(s)) ELSE views

MoveCurrentToEnd(s, views) ==
  IF Len(views) > 0 /\ views[1] = active_view(s)
  THEN Append(Remove(views, views[1]), views[1])
  ELSE views

\* the views __init__ starts from
SelectorSource(s, activeGroupArg) ==
  IF activeGroupArg THEN views_in_group(s, s.activeGroup) ELSE window_views(s)

SelectorSorted(s, activeGroupArg, sortByRecent) ==
  IF sortByRecent THEN sort_views_by_recent(s.list, SelectorSource(s, activeGroupArg))
  ELSE SelectorSource(s, activeGroupArg)

\* BufferSelector.__init__: the value of self.views
BufferSelector(s, activeGroupArg, sortByRecent, currentFirst) ==
  IF currentFirst THEN SelectorSorted(s, activeGroupArg, sortByRecent)
  ELSE MoveCurrentToEnd(s, SelectorSorted(s, activeGroupArg, sortByRecent))

\* choose_view: TRUE when the index is selected without showing the panel
AutoSelectsFromEnd(views, hasIndex, index) ==
  hasIndex /\ Len(views) > 0 /\ (-Len(views)) <= index /\ index < Len(views)

AutoSelects(views, hasIndex, index) == hasIndex /\ Abs(index) < Len(views)

\* select: the view the callback is called with, or None when it is not called
select_any(views, index) == IF Len(views) = 0 THEN None ELSE PyItem(views, index)

select(views, index) == IF index # -1 THEN PyItem(views, index) ELSE None

\* ------------------------------------------------------------ SwitchBufferCommand
SwitchAction(s, view) == focus_view(s, view)

\* -------------------------------------------------------------- KillBufferCommand
\* lines 95-98: switch to the group with the view we're closing
KillFocusGroup(s, view) == focus_group(s, GroupOf(s, view))

KillFocusOldest(s, view, recentOnKill) ==
  IF recentOnKill /\ view = active_view(s)
  THEN LET viewsInGroup == Remove(sort_views_by_recent(s.list, views_in_group(s, s.activeGroup)), view)
       IN  IF Len(viewsInGroup) > 0 THEN focus_view(s, viewsInGroup[Len(viewsInGroup)]) ELSE s
  ELSE s

\* lines 102-112: with recent_on_kill, focus the most recent other view of the group
KillFocusRecent(s, view, recentOnKill) ==
  IF recentOnKill /\ view = active_view(s)
  THEN LET viewsInGroup == Remove(sort_views_by_recent(s.list, views_in_group(s, s.activeGroup)), view)
       IN  IF Len(viewsInGroup) > 0 THEN focus_view(s, viewsInGroup[1]) ELSE s
  ELSE s

\* lines 118-119: focus the view and close it
KillCloseActive(s, view, d) == close_file(s, d)

KillClose(s, view, d) == close_file(focus_view(s, view), d)

\* lines 122-123: switch back to the view that was active before the close
KillNoRestoreView(s, startView, view) == s

KillRestoreView(s, startView, view) == IF startView # view THEN focus_view(s, startView) ELSE s

\* line 124: switch back to the group we started in
KillNoRestoreGroup(s, startGroup) == s

KillRestoreGroup(s, startGroup) == focus_group(s, startGroup)

\* the window after each editor call of KillBufferCommand.action, in order
KillTrace(s, view, recentOnKill, d) ==
  LET startGroup == s.activeGroup
      s1 == KillFocusGroup(s, view)
      s2 == KillFocusRecent(s1, view, recentOnKill)
      startView == active_view(s2)
      s3 == focus_view(s2, view)
      s4 == KillClose(s2, view, d)
      s5 == KillRestoreView(s4, startView, view)
      s6 == KillRestoreGroup(s5, startGroup)
  IN  <<s1, s2, s3, s4, s5, s6>>

KillAction(s, view, recentOnKill, d) == KillTrace(s, view, recentOnKill, d)[6]

\* the views the editor may activate when the kill action closes the view
KillDefaults(s, view) ==
  LET g == GroupOf(s, view)
  IN  IF Elems(s.groups[g]) = {view} THEN {None} ELSE Elems(s.groups[g]) \ {view}

\* --------------------------------------------------- BufferSelector.__get_path
\* A string is a sequence of characters.  A file name or a folder is held as
\* its sequence of names; Str gives the string, "/" before every name.
Chars == {"a", "b"}

Names == UNION {[1..n -> Chars] : n \in 1..MaxNameLen}

Paths == UNION {[1..n -> Names] : n \in 1..MaxDepth}

RECURSIVE Str(_)
Str(p) == IF p = <<>> THEN <<>> ELSE <<"/">> \o p[1] \o Str(Tail(p))

\* os.path.join of the names of a relative path
RECURSIVE JoinNames(_)
JoinNames(p) ==
  IF p = <<>> THEN <<>>
  ELSE IF Len(p) = 1 THEN p[1]
  ELSE p[1] \o <<"/">> \o JoinNames(Tail(p))

\* the length of the longest common prefix of two sequences
RECURSIVE PrefixLen(_, _)
PrefixLen(a, b) ==
  IF a = <<>> \/ b = <<>> \/ a[1] # b[1] THEN 0 ELSE 1 + PrefixLen(Tail(a), Tail(b))

\* os.path.commonprefix([a, b]): character by character
commonprefix(a, b) == SubSeq(a, 1, PrefixLen(a, b))

\* os.path.basename of a folder
basename(folder) == folder[Len(folder)]

\* os.path.relpath(file, start): ".." for every name of start after the common
\* names, then the remaining names of file
relpath(file, start) ==
  LET i == PrefixLen(start, file)
      rel == [k \in 1..(Len(start) - i) |-> <<".", ".">>] \o SubSeq(file, i + 1, Len(file))
  IN  IF rel = <<>> THEN <<".">> ELSE JoinNames(rel)

Unsaved == <<"<unsaved>">>

\* lines 191-200: the loop over the folders, from folder k on
RECURSIVE PathFrom(_, _, _)
PathFrom(file, folders, k) ==
  IF k > Len(folders) THEN Str(file)
  ELSE IF commonprefix(Str(folders[k]), Str(file)) = Str(folders[k])
       THEN IF Len(folders) > 1
            THEN basename(folders[k]) \o <<"/">> \o relpath(file, folders[k])
            ELSE relpath(file, folders[k])
       ELSE PathFrom(file, folders, k + 1)

\* BufferSelector.__get_path
get_path(scratch, hasFile, file, folders) ==
  IF scratch THEN <<>>
  ELSE IF ~hasFile THEN Unsaved
  ELSE PathFrom(file, folders, 1)

\* ------------------------------------------------------------------- the state
NoSelector == [open |-> FALSE, cmd |-> "none", views |-> <<>>, recentOnKill |-> FALSE]

EmptyWindow ==
  [groups |-> [g \in Groups |-> <<>>], active |-> [g \in Groups |-> None], activeGroup |-> 0,
   list |-> <<>>, hist |-> [acts |-> {}, before |-> {}]]

NoOp ==
  [kind |-> "none",        \* none, host_focus_view, host_activate, host_focus_group, host_open,
                           \* host_close, switch_buffer, kill_buffer, select
   cmd |-> "none",         \* the command whose selector was built or whose action ran
   pre |-> EmptyWindow,    \* the window and the recency list before the operation
   activeGroupArg |-> FALSE, sortByRecent |-> FALSE, hasIndex |-> FALSE, index |-> 0,
   recentOnKill |-> FALSE,
   source |-> <<>>,        \* the views __init__ started from
   sorted |-> <<>>,        \* the views after the sort step of __init__
   offered |-> <<>>,       \* self.views
   panel |-> FALSE,        \* show_quick_panel was called
   view |-> None,          \* the view closed by the editor's user, or the view the
                           \* command's action was called with, or None
   default |-> None,       \* the view the editor activated after the close
   trace |-> <<>>]         \* the window after each editor call of the kill action

NoRow == [phase |-> "none", scratch |-> FALSE, hasFile |-> FALSE, file |-> <<>>,
          folders |-> <<>>, path |-> <<>>]

TabOrders(S) ==
  {p \in [1..Cardinality(S) -> S] : \A i, j \in 1..Cardinality(S) : i # j => p[i] # p[j]}

Filter(p, grp, g) == LET Test(x) == grp[x] = g IN SelectSeq(p, Test)

TypeOK ==
  /\ groups \in [Groups -> Seq(Views)]
  /\ active \in [Groups -> Views \cup {None}]
  /\ activeGroup \in Groups
  /\ activeViewList \in Seq(Views)
  /\ selector.open \in BOOLEAN
  /\ \A g \in Groups : IF groups[g] = <<>> THEN active[g] = None ELSE In(groups[g], active[g])

\* The module is loaded into a running editor: the window holds any views in
\* any groups, and activeViewList = [] (line 32).
Init ==
  /\ \E S \in SUBSET Views : \E p \in TabOrders(S), grp \in [S -> Groups] :
       groups = [g \in Groups |-> Filter(p, grp, g)]
  /\ active \in [Groups -> Views \cup {None}]
  /\ \A g \in Groups : IF groups[g] = <<>> THEN active[g] = None ELSE In(groups[g], active[g])
  /\ activeGroup \in Groups
  /\ activeViewList = <<>>
  /\ selector = NoSelector
  /\ hist = [acts |-> {}, before |-> {}]
  /\ lastOp = NoOp
  /\ row = NoRow

Install(t) ==
  /\ groups' = t.groups
  /\ active' = t.active
  /\ activeGroup' = t.activeGroup
  /\ activeViewList' = t.list
  /\ hist' = t.hist
  /\ row' = row

Unchanged == UNCHANGED <<groups, active, activeGroup, activeViewList, hist, row>>

\* the history of the last operation has been read; operations start from here
Settled == lastOp.kind = "none"

HostOp(kind, view, d) == [NoOp EXCEPT !.kind = kind, !.pre = Cur, !.view = view, !.default = d]

\* ------------------------------------------------------------- the editor's user
\* the user clicks a tab
HostFocusView ==
  /\ Settled /\ ~selector.open
  /\ \E v \in OpenViews(Cur) :
       /\ v # active_view(Cur)
       /\ Install(focus_view(Cur, v))
       /\ lastOp' = HostOp("host_focus_view", v, None)
  /\ UNCHANGED selector

\* the editor gives the focus back to the active view (the window or the view
\* regains the input focus): on_activated fires for it again
HostActivate ==
  /\ Settled /\ ~selector.open
  /\ active_view(Cur) # None
  /\ Install(FireActivated(Cur, active_view(Cur)))
  /\ lastOp' = HostOp("host_activate", active_view(Cur), None)
  /\ UNCHANGED selector

\* the user moves the focus to another group
HostFocusGroup ==
  /\ Settled /\ ~selector.open
  /\ \E g \in Groups :
       /\ g # activeGroup
       /\ Install(focus_group(Cur, g))
  /\ lastOp' = HostOp("host_focus_group", None, None)
  /\ UNCHANGED selector

\* the user opens a file: a new view at the end of the active group, activated
HostOpen ==
  /\ Settled /\ ~selector.open
  /\ Cardinality(OpenViews(Cur)) < MaxViews
  /\ \E v \in Views \ (OpenViews(Cur) \cup Elems(activeViewList)) :
       /\ \A w \in Views \ (OpenViews(Cur) \cup Elems(activeViewList)) : v <= w
       /\ Install(FireActivated([Cur EXCEPT !.groups[activeGroup] = Append(groups[activeGroup], v),
                                            !.active[activeGroup] = v], v))
       /\ lastOp' = HostOp("host_open", v, None)
  /\ UNCHANGED selector

\* the user closes a tab
HostClose ==
  /\ Settled /\ ~selector.open
  /\ \E v \in OpenViews(Cur) : \E d \in DefaultChoices(Cur, v) :
       /\ Install(close_view(Cur, v, d))
       /\ lastOp' = HostOp("host_close", v, d)
  /\ UNCHANGED selector

\* ------------------------------------------------------------------ the commands
RunOp(kind, ag, sbr, cf) ==
  [NoOp EXCEPT !.kind = kind, !.cmd = kind, !.pre = Cur,
               !.activeGroupArg = ag, !.sortByRecent = sbr,
               !.source = SelectorSource(Cur, ag),
               !.sorted = SelectorSorted(Cur, ag, sbr),
               !.offered = BufferSelector(Cur, ag, sbr, cf)]

ActionOp(op, view, rok, d) ==
  [op EXCEPT !.view = view, !.recentOnKill = rok, !.default = d,
             !.trace = IF op.cmd = "kill_buffer" THEN KillTrace(Cur, view, rok, d) ELSE <<>>]

\* SwitchBufferCommand.run: builds the selector and shows the quick panel
SwitchRun ==
  /\ Settled /\ ~selector.open
  /\ \E ag \in BOOLEAN, sbr \in BOOLEAN :
       LET op == RunOp("switch_buffer", ag, sbr, FALSE)
       IN  /\ selector' = [open |-> TRUE, cmd |-> "switch_buffer", views |-> op.offered,
                           recentOnKill |-> FALSE]
           /\ lastOp' = [op EXCEPT !.panel = TRUE]
  /\ Unchanged

\* KillBufferCommand.run: builds the selector; choose_view(index) either selects
\* the index at once or shows the quick panel
KillRun ==
  /\ Settled /\ ~selector.open
  /\ \E ag \in BOOLEAN, sbr \in BOOLEAN, rok \in BOOLEAN, hasIndex \in BOOLEAN,
        index \in (-MaxViews)..MaxViews :
       LET op == [RunOp("kill_buffer", ag, sbr, TRUE) EXCEPT
                    !.hasIndex = hasIndex, !.index = index, !.recentOnKill = rok]
           views == op.offered
       IN  /\ hasIndex \/ index = 0
           /\ IF AutoSelects(views, hasIndex, index)
              THEN LET view == select(views, index)
                   IN  /\ selector' = NoSelector
                       /\ IF view = None
                          THEN lastOp' = op /\ Unchanged
                          ELSE \E d \in KillDefaults(Cur, view) :
                                 /\ Install(KillAction(Cur, view, rok, d))
                                 /\ lastOp' = ActionOp(op, view, rok, d)
              ELSE /\ selector' = [open |-> TRUE, cmd |-> "kill_buffer", views |-> views,
                                   recentOnKill |-> rok]
                   /\ lastOp' = [op EXCEPT !.panel = TRUE]
                   /\ Unchanged

\* the user picks a row of the quick panel, or cancels it (index -1): the
\* editor calls select(index)
PanelSelect ==
  /\ Settled /\ selector.open
  /\ \E index \in (-1)..(Len(selector.views) - 1) :
       LET view == select(selector.views, index)
           op == [NoOp EXCEPT !.kind = "select", !.cmd = selector.cmd, !.pre = Cur,
                              !.hasIndex = TRUE, !.index = index,
                              !.offered = selector.views]
       IN  IF view = None
           THEN lastOp' = op /\ Unchanged
           ELSE IF selector.cmd = "switch_buffer"
           THEN /\ Install(SwitchAction(Cur, view))
                /\ lastOp' = ActionOp(op, view, FALSE, None)
           ELSE \E d \in KillDefaults(Cur, view) :
                  /\ Install(KillAction(Cur, view, selector.recentOnKill, d))
                  /\ lastOp' = ActionOp(op, view, selector.recentOnKill, d)
  /\ selector' = NoSelector

\* the history of the last operation is dropped
Forget ==
  /\ ~Settled
  /\ lastOp' = NoOp
  /\ UNCHANGED <<groups, active, activeGroup, activeViewList, selector, hist, row>>

Next ==
  \/ HostFocusView
  \/ HostActivate
  \/ HostFocusGroup
  \/ HostOpen
  \/ HostClose
  \/ SwitchRun
  \/ KillRun
  \/ PanelSelect
  \/ Forget

Spec == Init /\ [][Next]_vars

\* ------------------------------------------------------ the quick panel's rows
\* a is the folder b or a folder above it
IsPrefix(a, b) == Len(a) <= Len(b) /\ SubSeq(b, 1, Len(a)) = a

FolderLists ==
  {f \in UNION {[1..n -> Paths] : n \in 0..MaxFolders} :
     \A i, j \in 1..Len(f) : i # j => f[i] # f[j]}

\* A view of the window and the window's folders: the view is scratch or not,
\* has a file or not; a file is no folder of the window and lies above none.
RowInit ==
  /\ groups = EmptyWindow.groups
  /\ active = EmptyWindow.active
  /\ activeGroup = EmptyWindow.activeGroup
  /\ activeViewList = <<>>
  /\ selector = NoSelector
  /\ hist = EmptyWindow.hist
  /\ lastOp = NoOp
  /\ \E scratch \in BOOLEAN, hasFile \in BOOLEAN, file \in Paths \cup {<<>>}, folders \in FolderLists :
       /\ hasFile <=> file # <<>>
       /\ \A i \in 1..Len(folders) : ~IsPrefix(file, folders[i])
       /\ row = [phase |-> "view", scratch |-> scratch, hasFile |-> hasFile, file |-> file,
                 folders |-> folders, path |-> <<>>]

\* choose_view builds the row of the view: lines 162-163 call __get_path
ShowRow ==
  /\ row.phase = "view"
  /\ row' = [row EXCEPT !.phase = "shown",
                        !.path = get_path(row.scratch, row.hasFile, row.file, row.folders)]
  /\ UNCHANGED <<groups, active, activeGroup, activeViewList, selector, hist, lastOp>>

RowNext == ShowRow

RowSpec == RowInit /\ [][RowNext]_vars

\* ===================================================================== claims
Pre == lastOp.pre

IsRun == lastOp.kind \in {"switch_buffer", "kill_buffer"}

\* the kill_buffer action ran on lastOp.view
KillActed == lastOp.cmd = "kill_buffer" /\ lastOp.view # None

KilledGroup == GroupOf(Pre, lastOp.view)

KilledWasActive == Pre.active[KilledGroup] = lastOp.view

NoDuplicates(list) == \A i, j \in 1..Len(list) : i # j => list[i] # list[j]

\* every listed view of seq stands before every unlisted one, and the listed
\* ones stand in descending position of the recency list
MRUOrdered(list, seq) ==
  \A i, j \in 1..Len(seq) :
    (i < j /\ In(list, seq[j])) => (In(list, seq[i]) /\ Index(list, seq[i]) > Index(list, seq[j]))

\* the views of seq that are not in the recency list stand in the order of source
UnlistedKeepOrder(list, source, seq) ==
  \A i, j \in 1..Len(seq) :
    (i < j /\ ~In(list, seq[i]) /\ ~In(list, seq[j])) => Index(source, seq[i]) < Index(source, seq[j])

IsPermutation(source, seq) ==
  Len(seq) = Len(source) /\ Elems(seq) = Elems(source) /\ NoDuplicates(seq)

SortedByRecent(list, source, seq) ==
  IsPermutation(source, seq) /\ MRUOrdered(list, seq) /\ UnlistedKeepOrder(list, source, seq)

C2_ClosedRemoved ==
  /\ Elems(activeViewList) \subseteq OpenViews(Cur)
  /\ lastOp.kind = "host_close" => ~In(activeViewList, lastOp.view)
  /\ KillActed =>
       /\ ~In(activeViewList, lastOp.view)
       /\ \A i \in 1..Len(lastOp.trace) :
            Elems(lastOp.trace[i].list) \subseteq OpenViews(lastOp.trace[i])

C2_Witness ==
  /\ KillActed
  /\ In(Pre.list, lastOp.view)
  /\ Len(activeViewList) >= 1

\* C3: the sort step of the selector returns a permutation of its input with
\* the listed views first, most recent first, then the unlisted views in input
\* order.
C3_SortByRecent ==
  (IsRun /\ lastOp.sortByRecent) => SortedByRecent(Pre.list, lastOp.source, lastOp.sorted)

C3_Witness ==
  /\ IsRun /\ lastOp.sortByRecent
  /\ Len(lastOp.source) = 3
  /\ ~In(Pre.list, lastOp.source[1]) /\ ~In(Pre.list, lastOp.source[2])
  /\ In(Pre.list, lastOp.source[3])

\* C4: the offered list holds each view of the active group (active_group
\* true) or of the window (active_group false) exactly once.
C4_Scope ==
  IsRun =>
    /\ NoDuplicates(lastOp.offered)
    /\ Elems(lastOp.offered) =
         IF lastOp.activeGroupArg THEN Elems(Pre.groups[Pre.activeGroup]) ELSE OpenViews(Pre)

C4_Witness ==
  /\ lastOp.kind = "switch_buffer"
  /\ lastOp.activeGroupArg
  /\ Len(lastOp.offered) = 2
  /\ lastOp.offered # lastOp.sorted
  /\ Cardinality(OpenViews(Pre)) = 3

\* switch_buffer built its selector with sort_by_recent, offers at least two
\* views and the window has a current view
SwitchSorted ==
  /\ lastOp.kind = "switch_buffer" /\ lastOp.sortByRecent
  /\ Len(lastOp.offered) >= 2
  /\ active_view(Pre) # None

\* C5 as claimed: switch_buffer with sort_by_recent and at least two views
\* offered shows the current view last and the others most recent first.
C5_CurrentMovedToEnd ==
  SwitchSorted =>
    /\ lastOp.offered[1] # active_view(Pre)
    /\ lastOp.offered[Len(lastOp.offered)] = active_view(Pre)
    /\ MRUOrdered(Pre.list, SubSeq(lastOp.offered, 1, Len(lastOp.offered) - 1))

\* the current view sorts first: it is the most recent of the source views, or
\* no source view is listed and it is the first of them
CurrentSortsFirst ==
  IF In(Pre.list, active_view(Pre))
  THEN \A v \in Elems(lastOp.source) :
         In(Pre.list, v) => Index(Pre.list, v) <= Index(Pre.list, active_view(Pre))
  ELSE lastOp.source[1] = active_view(Pre) /\ \A v \in Elems(lastOp.source) : ~In(Pre.list, v)

\* C5 amended: the current view is never shown first; it is moved to the end
\* when it sorts first, the other views keeping the sorted order; otherwise the
\* sorted list is offered as it is.
C5_CurrentNotFirst ==
  SwitchSorted =>
    /\ lastOp.offered[1] # active_view(Pre)
    /\ IF CurrentSortsFirst
       THEN /\ lastOp.offered[Len(lastOp.offered)] = active_view(Pre)
            /\ SortedByRecent(Pre.list, Remove(lastOp.source, active_view(Pre)),
                              SubSeq(lastOp.offered, 1, Len(lastOp.offered) - 1))
       ELSE SortedByRecent(Pre.list, lastOp.source, lastOp.offered)

C5_Witness ==
  /\ SwitchSorted
  /\ Len(lastOp.offered) = 3
  /\ lastOp.offered[3] = active_view(Pre)
  /\ In(Pre.list, lastOp.offered[1]) /\ In(Pre.list, lastOp.offered[2])
  /\ lastOp.source[1] = lastOp.offered[2]

\* C6: with recent_on_kill, after the kill action closed the active view of a
\* group with other views, the active view of that group is the most recent of
\* the remaining views by the recency list before the action.
C6_RecentOnKill ==
  (KillActed /\ lastOp.recentOnKill /\ KilledWasActive /\ Len(Pre.groups[KilledGroup]) >= 2) =>
    LET rest == Elems(Pre.groups[KilledGroup]) \ {lastOp.view}
        now == active[KilledGroup]
    IN  /\ now \in rest
        /\ \A r \in rest :
             In(Pre.list, r) => (In(Pre.list, now) /\ Index(Pre.list, now) >= Index(Pre.list, r))

C6_Witness ==
  /\ KillActed /\ lastOp.recentOnKill /\ KilledWasActive
  /\ Len(Pre.groups[KilledGroup]) = 3
  /\ lastOp.default # active[KilledGroup]
  /\ In(Pre.list, lastOp.default)
  /\ Pre.activeGroup # KilledGroup

\* C7 as claimed: kill_buffer with an auto_index that addresses an entry of
\* the offered list closes that entry without opening the quick panel.
C7_AutoIndexCloses ==
  (lastOp.kind = "kill_buffer" /\ lastOp.hasIndex /\ Abs(lastOp.index) < Len(lastOp.offered)) =>
    /\ ~lastOp.panel
    /\ lastOp.view = PyItem(lastOp.offered, lastOp.index)
    /\ OpenViews(Cur) = OpenViews(Pre) \ {PyItem(lastOp.offered, lastOp.index)}

\* C8: the kill action closes the selected view and no other: every group
\* holds the views it held, in the same order, without the selected view.
C8_ClosesExactlySelected ==
  KillActed =>
    /\ lastOp.view \in OpenViews(Pre)
    /\ OpenViews(Cur) = OpenViews(Pre) \ {lastOp.view}
    /\ \A g \in Groups :
         groups[g] = IF g = KilledGroup THEN Remove(Pre.groups[g], lastOp.view) ELSE Pre.groups[g]

C8_Witness ==
  /\ KillActed
  /\ KilledGroup # Pre.activeGroup
  /\ ~KilledWasActive
  /\ Cardinality(OpenViews(Cur)) = 2
  /\ active_view(Pre) # None

\* C9: after the kill action the active group is the group that was active
\* when it started.
C9_ActiveGroupRestored == KillActed => activeGroup = Pre.activeGroup

C9_Witness ==
  /\ KillActed
  /\ KilledGroup # Pre.activeGroup
  /\ KilledWasActive
  /\ Len(Pre.groups[KilledGroup]) >= 2

\* C10: the kill action on a view that is not the active view of its group
\* leaves the active view of every group as it was.
C10_ActiveViewsKept == (KillActed /\ ~KilledWasActive) => active = Pre.active

C10_Witness ==
  /\ KillActed /\ ~KilledWasActive
  /\ lastOp.default # Pre.active[KilledGroup]
  /\ lastOp.recentOnKill
  /\ KilledGroup # Pre.activeGroup

\* the window and the recency list are as they were before the last operation
WindowKept ==
  /\ groups = Pre.groups
  /\ active = Pre.active
  /\ activeGroup = Pre.activeGroup
  /\ activeViewList = Pre.list

\* the quick panel was cancelled: the editor called select(-1)
Cancelled == lastOp.kind = "select" /\ lastOp.index = -1

\* C11: cancelling the quick panel of switch_buffer or kill_buffer calls no
\* action: no view is focused or closed, and the active view, the active group
\* and the recency list are unchanged.
C11_CancelNoAction == Cancelled => (lastOp.view = None /\ WindowKept /\ ~selector.open)

C11_Witness ==
  /\ Cancelled
  /\ lastOp.cmd = "kill_buffer"
  /\ Len(lastOp.offered) >= 2
  /\ Len(activeViewList) >= 1
  /\ lastOp.offered[Len(lastOp.offered)] # active_view(Cur)

\* kill_buffer was given an auto_index that addresses no entry of the offered list
IndexOutOfRange ==
  lastOp.kind = "kill_buffer" /\ lastOp.hasIndex /\ Abs(lastOp.index) >= Len(lastOp.offered)

\* C12: kill_buffer with an auto_index that addresses no entry of the offered
\* list closes nothing by itself and shows the quick panel with the offered
\* views; a view is closed afterwards only when a row of the panel is
\* selected, and then it is the view of that row.
C12_OutOfRangeShowsPanel ==
  /\ IndexOutOfRange =>
       /\ lastOp.panel /\ lastOp.view = None /\ WindowKept
       /\ selector = [open |-> TRUE, cmd |-> "kill_buffer", views |-> lastOp.offered,
                      recentOnKill |-> lastOp.recentOnKill]
  /\ (lastOp.kind = "select" /\ lastOp.cmd = "kill_buffer" /\ OpenViews(Cur) # OpenViews(Pre)) =>
       /\ lastOp.index >= 0
       /\ OpenViews(Cur) = OpenViews(Pre) \ {lastOp.offered[lastOp.index + 1]}

C12_Witness ==
  /\ IndexOutOfRange
  /\ Len(lastOp.offered) >= 2
  /\ lastOp.index = -Len(lastOp.offered)

\* the file lies inside the folder
Inside(file, folder) == Len(folder) < Len(file) /\ SubSeq(file, 1, Len(folder)) = folder

\* the path of the file relative to a folder it lies in, after the folder's
\* base name when more than one folder is open
RelativeTo(file, folder, folders) ==
  LET rel == JoinNames(SubSeq(file, Len(folder) + 1, Len(file)))
  IN  IF Len(folders) > 1 THEN folder[Len(folder)] \o <<"/">> \o rel ELSE rel

\* C13: a scratch view shows an empty path, a view without a file '<unsaved>';
\* a file inside an open folder shows its path relative to such a folder, and a
\* file inside none of the open folders shows its full file name.
C13_PathShown ==
  row.phase = "shown" =>
    IF row.scratch THEN row.path = <<>>
    ELSE IF ~row.hasFile THEN row.path = Unsaved
    ELSE IF \E i \in 1..Len(row.folders) : Inside(row.file, row.folders[i])
    THEN \E i \in 1..Len(row.folders) :
           /\ Inside(row.file, row.folders[i])
           /\ row.path = RelativeTo(row.file, row.folders[i], row.folders)
    ELSE row.path = Str(row.file)

====
